---- MODULE Spec2Model ----
(***************************************************************************)
(* A model of the PyTorch 1.0 tutorial notebook: the linear-classifier     *)
(* training cell (gradient reset, forward, loss, backward, SGD update,     *)
(* periodic logging, train/test error rates), the seeding cell that        *)
(* precedes it, and the broadcasting example cell.                         *)
(*                                                                         *)
(* Numbers.  The notebook computes in float32.  The model computes in      *)
(* integers: weights and logits are integers, exp is taken to base 2 with  *)
(* underflow to 0, probabilities are multiples of 1/Scale, and every       *)
(* division rounds to nearest.  A Python name that is not bound yet, and   *)
(* a .grad that is still None, are the empty tuple <<>>; tensors are       *)
(* non-empty tuples, and a bound loss n is <<n>>.                          *)
(***************************************************************************)
EXTENDS Integers, Sequences, FiniteSets, TLC

\* ------------------------------------------------------------ bounds
\* iterations and logging intervals of the loop, rows of the training arrays
MaxIter == 3
MaxLog == 2
MaxRows == 2
\* ranks and dimension sizes of the shapes that are added
MaxRank == 3
MaxDim == 3
AutoDim == 2
MaxGrad == 1
\* resolution of a probability: p stands for p/Scale
Scale == 4

\* ------------------------------------------------- program constants
\* W = Parameter(zeros((4, 3))): 4 features, 3 classes
NumFeatures == 4
NumClasses == 3
\* for epoch in range(1001)
LinearEpochs == 1001
\* if epoch and not epoch % 100
LinearLogEvery == 100
\* torch.random.manual_seed(1)
NotebookSeed == 1
\* SGD(..., lr=0.01): one weight unit is 0.01, so lr is 1 unit per unit of gradient
lr == 1

\* an unbound Python name, or a .grad that is still None
None == <<>>

\* ------------------------------------------------------- tensor helpers
RECURSIVE SumSeq(_)
SumSeq(s) == IF s = <<>> THEN 0 ELSE Head(s) + SumSeq(Tail(s))

\* division rounding to nearest, ties away from zero
RoundDiv(a, n) ==
  IF a >= 0 THEN (2 * a + n) \div (2 * n) ELSE -((2 * (-a) + n) \div (2 * n))

MaxOf(z) == CHOOSE m \in {z[c] : c \in DOMAIN z} : \A c \in DOMAIN z : z[c] <= m

Zeros(n) == [c \in 1..n |-> 0]
ZerosMat(r, n) == [j \in 1..r |-> Zeros(n)]

\* zero tensor of the shape of g: a vector (bias) or a matrix (weight)
ZerosLikeVec(g) == [c \in DOMAIN g |-> 0]
ZerosLikeMat(g) == [j \in DOMAIN g |-> ZerosLikeVec(g[j])]

VecAdd(u, v) == [c \in DOMAIN u |-> u[c] + v[c]]
MatAdd(A, B) == [j \in DOMAIN A |-> VecAdd(A[j], B[j])]
VecAxpy(u, k, v) == [c \in DOMAIN u |-> u[c] - k * v[c]]
MatAxpy(A, k, B) == [j \in DOMAIN A |-> VecAxpy(A[j], k, B[j])]

\* ------------------------------------------------------------- the RNG
\* torch's global generator: a full-period congruential generator on 16 states
RngNext(r) == (5 * r + 3) % 16
RECURSIVE RngAdvance(_, _)
RngAdvance(r, k) == IF k = 0 THEN r ELSE RngAdvance(RngNext(r), k - 1)
\* one draw of uniform_(-0.01, 0.01), in units of 0.01
RngDraw(r) == (r % 3) - 1

\* faulty variant: a manual_seed that leaves the generator where it was
ManualSeedState_Ignored(r, s) == r

\* torch.random.manual_seed(s): the generator's state becomes a function of s alone
ManualSeedState(r, s) == s % 16

\* W.data.uniform_(-0.01, 0.01): fills W row-major from successive draws
UniformFill(r) ==
  [j \in 1..NumFeatures |->
     [c \in 1..NumClasses |-> RngDraw(RngAdvance(r, (j - 1) * NumClasses + (c - 1)))]]

\* ------------------------------------------------------ model and loss
\* yhat = torch.mm(x, W) + b   (b is broadcast over the rows)
Linear(xx, WW, bb) ==
  [i \in DOMAIN xx |->
     [c \in 1..NumClasses |->
        SumSeq([j \in 1..NumFeatures |-> xx[i][j] * WW[j][c]]) + bb[c]]]

\* 2^(8+d) for d <= 0, underflowing to 0 below 2^-8
Exp2(d) == IF d >= -8 THEN 2 ^ (8 + d) ELSE 0

\* softmax of one row of logits, in units of 1/Scale
Softmax(z) ==
  LET m == MaxOf(z)
      e == [c \in DOMAIN z |-> Exp2(z[c] - m)]
      t == SumSeq(e)
  IN  [c \in DOMAIN z |-> (2 * Scale * e[c] + t) \div (2 * t)]

\* -log2(p/Scale), rounded up to a whole number of halvings, capped at 8
NegLog(p) == CHOOSE n \in 0..8 :
               /\ (p * 2 ^ n >= Scale \/ n = 8)
               /\ \A k \in 0..(n - 1) : p * 2 ^ k < Scale

\* faulty variant: a cross_entropy that checks the batch size and not the targets
CrossEntropyRaises_SizeOnly(yh, yy) == Len(yh) # Len(yy)

\* cross_entropy raises when the batch sizes differ or a target is no class index
CrossEntropyRaises(yh, yy) ==
  \/ Len(yh) # Len(yy)
  \/ \E i \in DOMAIN yy : yy[i] \notin 0..(NumClasses - 1)

\* the probability a row gives to target t; cross_entropy raises before a target
\* that is no class index, or a row without a target, is ever looked up
TargetProb(p, yy, i) ==
  IF i \in DOMAIN yy /\ yy[i] + 1 \in DOMAIN p THEN p[yy[i] + 1] ELSE 0

\* cross_entropy(yhat, y), reduction='mean', in units of 1/16
CrossEntropy(yh, yy) ==
  RoundDiv(SumSeq([i \in DOMAIN yh |-> 16 * NegLog(TargetProb(Softmax(yh[i]), yy, i))]),
           Len(yh))

\* d loss / d yhat, row i: softmax(yhat[i]) - onehot(y[i]), in units of 1/Scale
LogitGrad(yh, yy) ==
  [i \in DOMAIN yh |->
     LET p == Softmax(yh[i])
     IN  [c \in 1..NumClasses |->
            p[c] - (IF i \in DOMAIN yy /\ c - 1 = yy[i] THEN Scale ELSE 0)]]

\* what loss.backward() contributes to W.grad and b.grad
GradientW(xx, yh, yy) ==
  LET gz == LogitGrad(yh, yy)
  IN  [j \in 1..NumFeatures |->
         [c \in 1..NumClasses |->
            RoundDiv(SumSeq([i \in DOMAIN xx |-> xx[i][j] * gz[i][c]]), Len(xx))]]

GradientB(xx, yh, yy) ==
  LET gz == LogitGrad(yh, yy)
  IN  [c \in 1..NumClasses |->
         RoundDiv(SumSeq([i \in DOMAIN xx |-> gz[i][c]]), Len(xx))]

\* yhat.argmax(1): the index (from 0) of the first largest logit of each row
ArgMax(z) == (CHOOSE c \in DOMAIN z :
                /\ z[c] = MaxOf(z)
                /\ \A k \in DOMAIN z : k < c => z[k] < z[c]) - 1

ArgMaxRows(yh) == [i \in DOMAIN yh |-> ArgMax(yh[i])]

\* faulty variant: == in place of !=: the accuracy, not the error
NotEqualFloat_Equal(pred, yy) == [i \in DOMAIN pred |-> IF pred[i] = yy[i] THEN 1 ELSE 0]

\* (predictions != y).float(): 1.0 where they differ, 0.0 where they agree
NotEqualFloat(pred, yy) == [i \in DOMAIN pred |-> IF pred[i] # yy[i] THEN 1 ELSE 0]

\* .mean() of a vector of 0/1: the fraction <<numerator, denominator>>, kept exact
Mean(v) == <<SumSeq(v), Len(v)>>

\* (yhat.argmax(1) != y).float().mean()
ErrorRate(yh, yy) == Mean(NotEqualFloat(ArgMaxRows(yh), yy))

\* --------------------------------------------------------------- state
VARIABLES
  \* what the cells are given: the arrays of the split, the loop's constants
  scenario, trainX, trainY, testX, testY, numIterations, logEvery, seed, again,
  \* the interpreter: position, generator, and the notebook's names
  pc, rng, W, b, grad, x, y, yhat, loss, epoch, it, out,
  train_error_rate, test_error_rate, err,
  \* bookkeeping for the properties
  run, seeded, count, W0, b0, lossEpoch, hist,
  \* the broadcasting cell
  shapeA, shapeB, sum, sumShape,
  \* the autodiff cells: the .grad of x and of W, what u and v send back into
  \* x.mm(W), and the cell that runs next
  x_grad, W_grad, du, dv, cell

inputs == <<scenario, trainX, trainY, testX, testY, numIterations, logEvery, seed, again>>
bcast == <<shapeA, shapeB, sum, sumShape>>
autodiff == <<x_grad, W_grad, du, dv, cell>>
vars == <<scenario, trainX, trainY, testX, testY, numIterations, logEvery, seed, again,
          pc, rng, W, b, grad, x, y, yhat, loss, epoch, it, out,
          train_error_rate, test_error_rate, err,
          run, seeded, count, W0, b0, lossEpoch, hist, shapeA, shapeB, sum, sumShape,
          x_grad, W_grad, du, dv, cell>>

\* rows shaped like the iris measurements, rounded to small integers
FeatureRows == << <<2, 1, 0, 0>>, <<1, 1, 1, 0>>, <<1, 0, 2, 1>>, <<0, 1, 1, 2>> >>
RowAt(i) == FeatureRows[((i - 1) % Len(FeatureRows)) + 1]
Features(n) == [i \in 1..n |-> RowAt(i)]
\* label vectors of every length up to MaxRows; NumClasses itself is out of range
LabelSeqs == UNION {[1..m -> 0..NumClasses] : m \in 1..MaxRows}
Seeds == {NotebookSeed, NotebookSeed + 1}
ZeroCount == [zero_grad |-> 0, forward |-> 0, loss |-> 0, backward |-> 0, step |-> 0]

InitNames ==
  /\ pc = "seed" /\ rng = 0
  /\ W = None /\ b = None /\ grad = [W |-> None, b |-> None]
  /\ x = None /\ y = None /\ yhat = None /\ loss = None
  /\ epoch = -1 /\ it = 0 /\ out = <<>>
  /\ train_error_rate = None /\ test_error_rate = None /\ err = "none"
  /\ run = 1 /\ seeded = FALSE /\ count = ZeroCount
  /\ W0 = None /\ b0 = None /\ lossEpoch = -1 /\ hist = <<>>

InitTest ==
  /\ testX = <<RowAt(2), RowAt(3)>>
  /\ testY = <<0, 1>>

\* any loop constants and any training arrays, malformed ones included
InitGeneric ==
  /\ scenario = "generic"
  /\ numIterations \in 0..MaxIter
  /\ logEvery \in 0..MaxLog
  /\ seed \in Seeds
  /\ again = TRUE
  /\ trainX \in {Features(n) : n \in 1..MaxRows}
  /\ trainY \in LabelSeqs

\* the notebook's own cell: range(1001), every 100, seed 1
InitLinear ==
  /\ scenario = "linear"
  /\ numIterations = LinearEpochs
  /\ logEvery = LinearLogEvery
  /\ seed = NotebookSeed
  /\ again = FALSE
  /\ trainX = Features(MaxRows)
  /\ trainY = [i \in 1..MaxRows |-> (i - 1) % NumClasses]

InitBroadcastIdle == shapeA = <<>> /\ shapeB = <<>> /\ sum = "idle" /\ sumShape = <<>>

InitAutodiffIdle ==
  x_grad = None /\ W_grad = None /\ du = None /\ dv = None /\ cell = "idle"

Init ==
  /\ InitNames /\ InitTest /\ (InitGeneric \/ InitLinear)
  /\ InitBroadcastIdle /\ InitAutodiffIdle

\* ------------------------------------------------------------- actions
\* faulty variant: optimizer.step() written before loss.backward()
NextStatement_StepFirst(p) ==
  CASE p = "for" -> "zero_grad"
    [] p = "zero_grad" -> "forward"
    [] p = "forward" -> "loss"
    [] p = "loss" -> "step"
    [] p = "step" -> "backward"
    [] p = "backward" -> "log"
    [] p = "log" -> "for"

\* the order of the statements of the loop: after the for line the body's six
\* statements, and from the last one back to the for line
NextStatement(p) ==
  CASE p = "for" -> "zero_grad"
    [] p = "zero_grad" -> "forward"
    [] p = "forward" -> "loss"
    [] p = "loss" -> "backward"
    [] p = "backward" -> "step"
    [] p = "step" -> "log"
    [] p = "log" -> "for"

\* cell 15: torch.random.manual_seed(seed)
ManualSeed ==
  /\ pc = "seed"
  /\ rng' = ManualSeedState(rng, seed)
  /\ seeded' = TRUE
  /\ pc' = "create"
  /\ UNCHANGED <<inputs, bcast, autodiff, W, b, grad, x, y, yhat, loss, epoch, it, out,
                 train_error_rate, test_error_rate, err, run, count, W0, b0,
                 lossEpoch, hist>>

\* cell 16 up to the for statement: W, b, optimizer, x, y
Setup ==
  /\ pc = "create"
  /\ W' = UniformFill(rng)
  /\ rng' = RngAdvance(rng, NumFeatures * NumClasses)
  /\ b' = Zeros(NumClasses)
  /\ grad' = [W |-> None, b |-> None]
  /\ x' = trainX
  /\ y' = trainY
  /\ it' = 0
  /\ out' = <<>>
  /\ W0' = W'
  /\ b0' = b'
  /\ count' = ZeroCount
  /\ hist' = IF run = 1 THEN <<[W |-> W', b |-> b', loss |-> None]>> ELSE hist
  /\ pc' = "for"
  /\ UNCHANGED <<inputs, bcast, autodiff, yhat, loss, epoch, train_error_rate,
                 test_error_rate, err, run, seeded, lossEpoch>>

\* faulty variant: a range that gives one value too many
RangeHasNext_OneMore(i, n) == i <= n

\* range(n) still has a value to give after i values
RangeHasNext(i, n) == i < n

\* for epoch in range(numIterations)
ForNext ==
  /\ pc = "for"
  /\ IF RangeHasNext(it, numIterations)
       THEN epoch' = it /\ it' = it + 1 /\ pc' = NextStatement("for")
       ELSE pc' = "eval_train" /\ UNCHANGED <<epoch, it>>
  /\ UNCHANGED <<inputs, bcast, autodiff, rng, W, b, grad, x, y, yhat, loss, out,
                 train_error_rate, test_error_rate, err, run, seeded, count,
                 W0, b0, lossEpoch, hist>>

\* faulty variant: an optimizer that was given [W] only
ZeroGradOf_WeightOnly(g) ==
  [W |-> IF g.W = None THEN None ELSE ZerosLikeMat(g.W), b |-> g.b]

\* faulty variant: a zero_grad that resets nothing
ZeroGradOf_Nothing(g) == g

\* optimizer.zero_grad(): every Parameter of the optimizer whose grad is not None
ZeroGradOf(g) ==
  [W |-> IF g.W = None THEN None ELSE ZerosLikeMat(g.W),
   b |-> IF g.b = None THEN None ELSE ZerosLikeVec(g.b)]

ZeroGrad ==
  /\ pc = "zero_grad"
  /\ grad' = ZeroGradOf(grad)
  /\ count' = [count EXCEPT !.zero_grad = @ + 1]
  /\ pc' = NextStatement("zero_grad")
  /\ UNCHANGED <<inputs, bcast, autodiff, rng, W, b, x, y, yhat, loss, epoch, it, out,
                 train_error_rate, test_error_rate, err, run, seeded, W0, b0,
                 lossEpoch, hist>>

\* yhat = torch.mm(x, W) + b
Forward ==
  /\ pc = "forward"
  /\ yhat' = Linear(x, W, b)
  /\ count' = [count EXCEPT !.forward = @ + 1]
  /\ pc' = NextStatement("forward")
  /\ UNCHANGED <<inputs, bcast, autodiff, rng, W, b, grad, x, y, loss, epoch, it, out,
                 train_error_rate, test_error_rate, err, run, seeded, W0, b0,
                 lossEpoch, hist>>

\* loss = torch.nn.functional.cross_entropy(yhat, y)
Loss ==
  /\ pc = "loss"
  /\ IF CrossEntropyRaises(yhat, y)
       THEN /\ pc' = "error"
            /\ err' = "cross_entropy"
            /\ UNCHANGED <<loss, lossEpoch, count>>
       ELSE /\ loss' = <<CrossEntropy(yhat, y)>>
            /\ lossEpoch' = epoch
            /\ count' = [count EXCEPT !.loss = @ + 1]
            /\ pc' = NextStatement("loss")
            /\ UNCHANGED err
  /\ UNCHANGED <<inputs, bcast, autodiff, rng, W, b, grad, x, y, yhat, epoch, it, out,
                 train_error_rate, test_error_rate, run, seeded, W0, b0, hist>>

\* backward adds the contribution d to the accumulator g (None counts as zero)
\* faulty variant: a backward pass that overwrites .grad
AccumulateMat_Overwrite(g, d) == d

\* backward adds to .grad; the first one finds None and stores its contribution
AccumulateMat(g, d) == IF g = None THEN d ELSE MatAdd(g, d)
AccumulateVec(g, d) == IF g = None THEN d ELSE VecAdd(g, d)

\* loss.backward()
Backward ==
  /\ pc = "backward"
  /\ grad' = [W |-> AccumulateMat(grad.W, GradientW(x, yhat, y)),
              b |-> AccumulateVec(grad.b, GradientB(x, yhat, y))]
  /\ count' = [count EXCEPT !.backward = @ + 1]
  /\ pc' = NextStatement("backward")
  /\ UNCHANGED <<inputs, bcast, autodiff, rng, W, b, x, y, yhat, loss, epoch, it, out,
                 train_error_rate, test_error_rate, err, run, seeded, W0, b0,
                 lossEpoch, hist>>

\* SGD: p.data.add_(-lr, p.grad) for every Parameter whose grad is not None
SGDMat(p, g) == IF g = None THEN p ELSE MatAxpy(p, lr, g)
SGDVec(p, g) == IF g = None THEN p ELSE VecAxpy(p, lr, g)

\* optimizer.step()
Step ==
  /\ pc = "step"
  /\ W' = SGDMat(W, grad.W)
  /\ b' = SGDVec(b, grad.b)
  /\ count' = [count EXCEPT !.step = @ + 1]
  /\ hist' = IF run = 1 /\ again
               THEN Append(hist, [W |-> W', b |-> b', loss |-> loss])
               ELSE hist
  /\ pc' = NextStatement("step")
  /\ UNCHANGED <<inputs, bcast, autodiff, rng, grad, x, y, yhat, loss, epoch, it, out,
                 train_error_rate, test_error_rate, err, run, seeded, W0, b0,
                 lossEpoch>>

\* faulty variant: `not epoch % every`, without the test of epoch itself
LogCondition_NoEpochTest(e, every) ==
  IF every = 0 THEN "raise"
  ELSE IF e % every = 0 THEN "yes" ELSE "no"

\* `epoch and not epoch % every`: "raise" stands for ZeroDivisionError
LogCondition(e, every) ==
  IF e = 0 THEN "no"
  ELSE IF every = 0 THEN "raise"
  ELSE IF e % every = 0 THEN "yes" ELSE "no"

\* if epoch and not epoch % logEvery: print(epoch, loss.item())
Log ==
  /\ pc = "log"
  /\ LET c == LogCondition(epoch, logEvery)
     IN  /\ out' = IF c = "yes" THEN Append(out, <<epoch, loss[1]>>) ELSE out
         /\ pc' = IF c = "raise" THEN "error" ELSE NextStatement("log")
         /\ err' = IF c = "raise" THEN "ZeroDivisionError" ELSE err
  /\ UNCHANGED <<inputs, bcast, autodiff, rng, W, b, grad, x, y, yhat, loss, epoch, it,
                 train_error_rate, test_error_rate, run, seeded, count, W0, b0,
                 lossEpoch, hist>>

\* train_error_rate = (yhat.argmax(1) != y).float().mean(), yhat as the loop left it
EvalTrain ==
  /\ pc = "eval_train"
  /\ IF yhat = None
       THEN pc' = "error" /\ err' = "NameError" /\ UNCHANGED train_error_rate
       ELSE IF Len(yhat) # Len(y)
       THEN pc' = "error" /\ err' = "RuntimeError" /\ UNCHANGED train_error_rate
       ELSE /\ train_error_rate' = ErrorRate(yhat, y)
            /\ pc' = "eval_test"
            /\ UNCHANGED err
  /\ UNCHANGED <<inputs, bcast, autodiff, rng, W, b, grad, x, y, yhat, loss, epoch, it, out,
                 test_error_rate, run, seeded, count, W0, b0, lossEpoch, hist>>

\* x, y = test arrays; yhat = torch.mm(x, W) + b; test_error_rate = ...
EvalTest ==
  /\ pc = "eval_test"
  /\ x' = testX
  /\ y' = testY
  /\ yhat' = Linear(testX, W, b)
  /\ test_error_rate' = ErrorRate(yhat', testY)
  /\ pc' = "done"
  /\ UNCHANGED <<inputs, bcast, autodiff, rng, W, b, grad, loss, epoch, it, out,
                 train_error_rate, err, run, seeded, count, W0, b0, lossEpoch,
                 hist>>

\* the cell is run again, after the seeding cell or on its own
Rerun ==
  /\ pc = "done"
  /\ again /\ run = 1
  /\ run' = run + 1
  /\ seeded' = FALSE
  /\ pc' \in {"seed", "create"}
  /\ UNCHANGED <<inputs, bcast, autodiff, rng, W, b, grad, x, y, yhat, loss, epoch, it, out,
                 train_error_rate, test_error_rate, err, count, W0, b0,
                 lossEpoch, hist>>

\* ------------------------------------------------- the broadcasting cell
Max2(m, n) == IF m >= n THEN m ELSE n

\* faulty variant: dimensions of size 1 put behind the shape instead of in front
PadLeft_Right(s, n) == [i \in 1..n |-> IF i <= Len(s) THEN s[i] ELSE 1]

\* a shape with dimensions of size 1 put in front of it, up to n dimensions
PadLeft(s, n) == [i \in 1..n |-> IF i <= n - Len(s) THEN 1 ELSE s[i - (n - Len(s))]]

\* the shape of a + b, or <<>> when the shapes do not broadcast
BroadcastShape(sa, sb) ==
  LET n == Max2(Len(sa), Len(sb))
      pa == PadLeft(sa, n)
      pb == PadLeft(sb, n)
  IN  IF \A i \in 1..n : pa[i] = pb[i] \/ pa[i] = 1 \/ pb[i] = 1
        THEN [i \in 1..n |-> IF pa[i] = 1 THEN pb[i] ELSE pa[i]]
        ELSE <<>>

Shapes == UNION {[1..r -> 1..MaxDim] : r \in 1..MaxRank}
\* the three additions the notebook performs
NotebookPairs == { << <<3>>, <<1>> >>,
                   << <<5, 4, 3, 2>>, <<4, 1, 2>> >>,
                   << <<5, 4, 3, 2>>, <<5, 4, 3>> >> }

InitBroadcast ==
  /\ InitNames /\ InitTest /\ InitLinear
  /\ \E pr \in (Shapes \X Shapes) \cup NotebookPairs : shapeA = pr[1] /\ shapeB = pr[2]
  /\ sum = "idle"
  /\ sumShape = <<>>
  /\ InitAutodiffIdle

\* try: print((torch.ones(*shapeA) + torch.ones(*shapeB)).shape)
\* except: print("That did not work, as expected.")
Add ==
  /\ sum = "idle"
  /\ shapeA # <<>>
  /\ sumShape' = BroadcastShape(shapeA, shapeB)
  /\ sum' = IF sumShape' = <<>> THEN "error" ELSE "ok"
  /\ UNCHANGED <<inputs, autodiff, shapeA, shapeB, pc, rng, W, b, grad, x, y, yhat, loss,
                 epoch, it, out, train_error_rate, test_error_rate, err, run,
                 seeded, count, W0, b0, lossEpoch, hist>>

NextBroadcast == Add

SpecBroadcast == InitBroadcast /\ [][NextBroadcast]_vars

\* ------------------------------------------------------ the autodiff cells
\* x = [[1, 0.4, 3, 0.6]] rounded to integers, cut to AutoDim columns
XRow == <<1, 0, 3, 1>>
AutodiffX == << [j \in 1..AutoDim |-> XRow[((j - 1) % Len(XRow)) + 1]] >>
\* W is drawn by numpy's unseeded generator from (-1, 1): a few square matrices
AutodiffWs == { [j \in 1..AutoDim |-> [c \in 1..AutoDim |-> ((j + c + k) % 3) - 1]] :
                k \in 0..2 }
\* what a scalar built from h = tanh(x.mm(W)) sends back into x.mm(W): one row
Upstream == { <<r>> : r \in [1..AutoDim -> (0 - MaxGrad)..MaxGrad] }

\* backward through x.mm(W): d . W^T reaches x, and x^T . d reaches W
MmGradInput(d, ww) ==
  [i \in DOMAIN d |->
     [j \in DOMAIN ww |-> SumSeq([c \in DOMAIN d[i] |-> d[i][c] * ww[j][c]])]]
MmGradWeight(xx, d) ==
  [j \in DOMAIN xx[1] |->
     [c \in DOMAIN d[1] |-> SumSeq([i \in DOMAIN xx |-> xx[i][j] * d[i][c]])]]

\* x and W are leaf tensors with requires_grad=True and no .grad yet
InitAutodiff ==
  /\ InitTest /\ InitLinear /\ InitBroadcastIdle
  /\ pc = "seed" /\ rng = 0
  /\ x = AutodiffX /\ W \in AutodiffWs
  /\ b = None /\ grad = [W |-> None, b |-> None]
  /\ y = None /\ yhat = None /\ loss = None
  /\ epoch = -1 /\ it = 0 /\ out = <<>>
  /\ train_error_rate = None /\ test_error_rate = None /\ err = "none"
  /\ run = 1 /\ seeded = FALSE /\ count = ZeroCount
  /\ W0 = None /\ b0 = None /\ lossEpoch = -1 /\ hist = <<>>
  /\ x_grad = None /\ W_grad = None
  /\ du \in Upstream /\ dv \in Upstream
  /\ cell = "u_backward"

AutodiffUnchanged ==
  UNCHANGED <<inputs, bcast, pc, rng, W, b, grad, x, y, yhat, loss, epoch, it, out,
              train_error_rate, test_error_rate, err, run, seeded, count, W0, b0,
              lossEpoch, hist, du, dv>>

\* u = torch.sum(h ** 2); u.backward()
BackwardU ==
  /\ cell = "u_backward"
  /\ x_grad' = AccumulateMat(x_grad, MmGradInput(du, W))
  /\ W_grad' = AccumulateMat(W_grad, MmGradWeight(x, du))
  /\ cell' = "v_backward"
  /\ AutodiffUnchanged

\* h = torch.tanh(x.mm(W)); v = torch.sum(torch.exp(-h / 2)); v.backward()
BackwardV ==
  /\ cell \in {"v_backward", "v_backward_again"}
  /\ x_grad' = AccumulateMat(x_grad, MmGradInput(dv, W))
  /\ W_grad' = AccumulateMat(W_grad, MmGradWeight(x, dv))
  /\ cell' = IF cell = "v_backward" THEN "zero_" ELSE "end"
  /\ AutodiffUnchanged

\* x.grad.zero_(); W.grad.zero_()
GradZero ==
  /\ cell = "zero_"
  /\ x_grad # None /\ W_grad # None
  /\ x_grad' = ZerosLikeMat(x_grad)
  /\ W_grad' = ZerosLikeMat(W_grad)
  /\ cell' = "v_backward_again"
  /\ AutodiffUnchanged

NextAutodiff == BackwardU \/ BackwardV \/ GradZero

SpecAutodiff == InitAutodiff /\ [][NextAutodiff]_vars

\* ------------------------------------------------------ the notebook run
Next ==
  \/ ManualSeed \/ Setup \/ ForNext \/ ZeroGrad \/ Forward \/ Loss \/ Backward
  \/ Step \/ Log \/ EvalTrain \/ EvalTest \/ Rerun

Spec == Init /\ [][Next]_vars

\* ---------------------------------------------------------- properties
ZeroW == ZerosMat(NumFeatures, NumClasses)
ZeroB == Zeros(NumClasses)
\* the value an accumulator stands for: a .grad that is still None holds nothing
AccW == IF grad.W = None THEN ZeroW ELSE grad.W
AccB == IF grad.b = None THEN ZeroB ELSE grad.b
LoopExited == pc \in {"eval_train", "eval_test", "done"}
Malformed ==
  \/ Len(trainX) # Len(trainY)
  \/ \E i \in DOMAIN trainY : trainY[i] < 0 \/ trainY[i] >= NumClasses

\* C1: in every iteration, right after optimizer.zero_grad() and before the
\* forward pass, the gradient accumulator of W and of b is exactly zero.
C1_ZeroAfterReset == pc = "forward" => AccW = ZeroW /\ AccB = ZeroB

\* reached: a later iteration, whose reset cleared a gradient that had moved W
C1_Witness ==
  /\ pc = "forward" /\ epoch >= 2
  /\ grad.W = ZeroW /\ grad.b = ZeroB /\ W # W0

\* C2: backward always starts from reset accumulators, so that when
\* optimizer.step() runs the accumulators hold the gradient of this iteration's
\* loss (taken at this iteration's forward pass) and nothing else.
C2_OwnGradientAtStep ==
  /\ pc = "backward" => AccW = ZeroW /\ AccB = ZeroB
  /\ pc = "step" =>
       /\ yhat = Linear(x, W, b)
       /\ grad.W = GradientW(x, yhat, y)
       /\ grad.b = GradientB(x, yhat, y)

\* reached: a step of a later iteration with a non-zero gradient, after an
\* earlier iteration's gradient moved W
C2_Witness ==
  /\ pc = "step" /\ epoch >= 1
  /\ grad.W # ZeroW /\ W # W0

\* C3: with numIterations = 0 the loop leaves W and b as created, leaves their
\* accumulators untouched, never calls optimizer.step and binds no loss.
C3_ZeroIterations ==
  (numIterations = 0 /\ pc \notin {"seed", "create"}) =>
    /\ W = W0 /\ b = b0
    /\ grad = [W |-> None, b |-> None]
    /\ count = ZeroCount
    /\ loss = None

\* reached: the loop of zero iterations has been left
C3_Witness == numIterations = 0 /\ pc = "eval_train" /\ it = 0

\* the first largest logit of row z is the one of class k
IsArgMax(z, k) ==
  /\ k + 1 \in DOMAIN z
  /\ \A c \in DOMAIN z : z[c] <= z[k + 1]
  /\ \A c \in DOMAIN z : c < k + 1 => z[c] < z[k + 1]
\* the rows whose arg-max class is not their label
Mismatches(yh, yy) == {i \in DOMAIN yy : ~IsArgMax(yh[i], yy[i])}
IsErrorRate(r, yh, yy) ==
  /\ r = <<Cardinality(Mismatches(yh, yy)), Len(yy)>>
  /\ 0 <= r[1] /\ r[1] <= r[2] /\ r[2] > 0

\* C4: an error rate is mismatches/rows, the mismatches being the rows whose
\* arg-max class differs from the label, and so lies in [0, 1]: the training
\* rate over the predictions and labels it was taken from, the test rate
\* over the test predictions and labels.
C4_ErrorRateIsFraction ==
  /\ pc = "eval_test" => IsErrorRate(train_error_rate, yhat, y)
  /\ pc = "done" => IsErrorRate(test_error_rate, yhat, y)

\* reached: a test error rate strictly between 0 and 1
C4_Witness ==
  /\ pc = "done"
  /\ test_error_rate[1] > 0 /\ test_error_rate[1] < test_error_rate[2]
  /\ train_error_rate[1] > 0

\* C5 as claimed: with malformed training arrays nothing of an iteration ever
\* runs (no reset, forward, backward or step) and the parameters keep their
\* initial values.
C5_FailsBeforeAnyIteration ==
  Malformed => count = ZeroCount /\ (W # None => W = W0 /\ b = b0)

\* C5 as amended: with malformed training arrays and at least one iteration,
\* the run fails inside the first iteration, at cross_entropy: the reset and
\* the forward pass of that iteration have run, no loss is bound, no backward
\* and no step has run, and W and b are as created.
C5_FailsAtFirstLoss ==
  Malformed =>
    /\ count.loss = 0 /\ count.backward = 0 /\ count.step = 0
    /\ count.zero_grad <= 1 /\ count.forward <= 1
    /\ loss = None
    /\ W # None => W = W0 /\ b = b0
    /\ pc \notin {"backward", "step", "log", "eval_test", "done"}
    /\ (pc = "error" /\ numIterations > 0) =>
         /\ err = "cross_entropy" /\ epoch = 0
         /\ count.zero_grad = 1 /\ count.forward = 1
    /\ (pc = "loss" /\ numIterations > 0) => CrossEntropyRaises(yhat, y)

\* reached: an out-of-range label made the first loss raise
C5_Witness ==
  /\ Len(trainX) = Len(trainY) /\ Malformed
  /\ pc = "error" /\ err = "cross_entropy" /\ count.forward = 1

\* C6: a second run of the cell, seeded with the same seed, on the same arrays
\* and loop constants, starts from the first run's parameters, has the first
\* run's parameters and loss after every optimizer step, and ends with the
\* first run's final loss.
C6_SameSeedSameRun ==
  (run = 2 /\ seeded) =>
    /\ (pc = "for" /\ it = 0) => W = hist[1].W /\ b = hist[1].b
    /\ pc = "log" =>
         /\ W = hist[epoch + 2].W /\ b = hist[epoch + 2].b
         /\ loss = hist[epoch + 2].loss
    /\ LoopExited =>
         /\ Len(hist) = numIterations + 1
         /\ loss = hist[Len(hist)].loss
         /\ W = hist[Len(hist)].W /\ b = hist[Len(hist)].b

\* reached: a seeded second run that trained and finished
C6_Witness ==
  /\ run = 2 /\ seeded /\ pc = "done"
  /\ numIterations >= 2 /\ W # W0 /\ loss # None

\* the k-th dimension of shape s counted from the last
Trailing(s, k) == s[Len(s) - k + 1]
TrailingOr1(s, k) == IF k <= Len(s) THEN Trailing(s, k) ELSE 1
Min2(m, n) == IF m <= n THEN m ELSE n

\* C7: a + b succeeds exactly when, counted from the last dimension, every
\* pair of dimensions both shapes have is equal or has a 1; the result has the
\* longer rank, each dimension the larger of the pair (a missing one counting
\* as 1).  (5,4,3,2) + (4,1,2) gives (5,4,3,2); (5,4,3,2) + (5,4,3) fails.
C7_Broadcast ==
  sum # "idle" =>
    /\ sum = "ok" <=>
         \A k \in 1..Min2(Len(shapeA), Len(shapeB)) :
            \/ Trailing(shapeA, k) = Trailing(shapeB, k)
            \/ Trailing(shapeA, k) = 1
            \/ Trailing(shapeB, k) = 1
    /\ sum = "ok" =>
         /\ Len(sumShape) = Max2(Len(shapeA), Len(shapeB))
         /\ \A k \in 1..Len(sumShape) :
              Trailing(sumShape, k) =
                Max2(TrailingOr1(shapeA, k), TrailingOr1(shapeB, k))
    /\ (shapeA = <<5, 4, 3, 2>> /\ shapeB = <<4, 1, 2>>) =>
         sum = "ok" /\ sumShape = <<5, 4, 3, 2>>
    /\ (shapeA = <<5, 4, 3, 2>> /\ shapeB = <<5, 4, 3>>) => sum = "error"

\* reached: the notebook's failing addition has been tried
C7_Witness ==
  /\ shapeA = <<5, 4, 3, 2>> /\ shapeB = <<5, 4, 3>> /\ sum = "error"

\* C8: the five steps of an iteration run once each, in the order reset,
\* forward, loss, backward, update: no update is ahead of the backward passes,
\* no reset is more than one ahead of the updates, and after the update of
\* iteration k each step has run exactly k + 1 times.
C8_StepOrder ==
  /\ count.step <= count.backward
  /\ count.backward <= count.loss
  /\ count.loss <= count.forward
  /\ count.forward <= count.zero_grad
  /\ count.zero_grad <= count.step + 1
  /\ pc = "log" =>
       \A s \in DOMAIN count : count[s] = epoch + 1
  /\ pc = "for" =>
       \A s \in DOMAIN count : count[s] = it

\* reached: the update of the third iteration is done
C8_Witness == pc = "log" /\ epoch = 2 /\ count.step = 3 /\ count.zero_grad = 3

\* a line was printed in this step
Emission == Len(out') > Len(out)

\* C9: a line is printed in a step exactly when the step is the logging
\* statement, logEvery > 0 and epoch is a positive multiple of logEvery; the
\* line is (epoch, loss) with the loss computed in this same iteration.  With
\* logEvery = 0, and at epoch 0, nothing is printed.
C9_Logging ==
  [][ /\ Emission <=>
           /\ pc = "log"
           /\ logEvery > 0
           /\ epoch > 0
           /\ epoch % logEvery = 0
      /\ Emission =>
           /\ out' = Append(out, <<epoch, loss[1]>>)
           /\ lossEpoch = epoch
           /\ loss = <<CrossEntropy(yhat, y)>> ]_vars

\* reached: with logEvery = 2 and three iterations, the one line of epoch 2
C9_Witness ==
  /\ logEvery = 2 /\ numIterations = 3 /\ pc = "done"
  /\ Len(out) = 1 /\ out[1][1] = 2 /\ out[1][2] = loss[1]

\* C10 as claimed: the linear-classifier cell has called optimizer.step exactly
\* 1000 times when its loop is left.
C10_LinearThousandSteps ==
  (scenario = "linear" /\ LoopExited) => count.step = 1000

\* C10 as amended: the loop is left only after the range is used up, and then
\* optimizer.step has been called exactly numIterations times, the bound of
\* the range: 1001 times in the linear-classifier cell.  No exit depends on the
\* loss.
C10_StepsEqualRange ==
  /\ LoopExited => count.step = numIterations /\ it = numIterations
  /\ (scenario = "linear" /\ LoopExited) => count.step = LinearEpochs
  /\ count.step <= numIterations

\* reached: the linear-classifier cell has finished
C10_Witness == scenario = "linear" /\ pc = "done" /\ count.step = 1001

\* the contributions of u.backward() and of v.backward() to x.grad and W.grad
G1x == MmGradInput(du, W)
G1W == MmGradWeight(x, du)
G2x == MmGradInput(dv, W)
G2W == MmGradWeight(x, dv)
NonZeroMat(m) == \E i \in DOMAIN m : \E j \in DOMAIN m[i] : m[i][j] # 0

\* C11: a gradient accumulator starts empty, standing for zero, so the first
\* backward pass leaves exactly its contribution g1; a second backward pass with
\* no reset in between leaves g1 + g2; and after an explicit reset one backward
\* pass with contribution g2 leaves exactly g2. This holds for x.grad and W.grad.
C11_AdditiveBackward ==
  /\ cell = "u_backward" => x_grad = None /\ W_grad = None
  /\ cell = "v_backward" => x_grad = G1x /\ W_grad = G1W
  /\ cell = "zero_" => x_grad = MatAdd(G1x, G2x) /\ W_grad = MatAdd(G1W, G2W)
  /\ cell = "v_backward_again" =>
       x_grad = ZerosLikeMat(G1x) /\ W_grad = ZerosLikeMat(G1W)
  /\ cell = "end" => x_grad = G2x /\ W_grad = G2W

\* reached: all three cells have run with contributions that are not zero, so
\* the sum differed from either part, and the reset dropped the first of them
C11_Witness ==
  /\ cell = "end"
  /\ NonZeroMat(G1x) /\ NonZeroMat(G1W) /\ NonZeroMat(G2x) /\ NonZeroMat(G2W)
  /\ x_grad = G2x /\ W_grad = G2W
  /\ MatAdd(G1x, G2x) # G2x /\ MatAdd(G1W, G2W) # G2W

\* the error rate a forward pass of the cell's model gives on a split
ClassificationErrorRate(WW, bb, features, labels) ==
  ErrorRate(Linear(features, WW, bb), labels)

\* C12: once both rates are reported, each is the error rate of a forward pass
\* with W and b as the last optimizer step left them: the training rate on the
\* training arrays, the test rate on the test arrays.
C12_RatesFromTrainedModel ==
  pc = "done" =>
    /\ train_error_rate = ClassificationErrorRate(W, b, trainX, trainY)
    /\ test_error_rate = ClassificationErrorRate(W, b, testX, testY)

\* the half of C12 the cell does satisfy: the test rate comes from a forward
\* pass made after the loop, with the final W and b
C12_TestRateFromTrainedModel ==
  pc = "done" => test_error_rate = ClassificationErrorRate(W, b, testX, testY)

\* what the cell reports as the training rate: the error rate of the yhat the
\* last iteration computed, before that iteration's optimizer step
C12_StaleTrainRate ==
  /\ pc = "done"
  /\ train_error_rate # ClassificationErrorRate(W, b, trainX, trainY)
  /\ test_error_rate = ClassificationErrorRate(W, b, testX, testY)

====
